---- MODULE Spec2Model ----
(***************************************************************************)
(* Model of ShoppingCart (src/src/shopping_cart.py) and of a caller that   *)
(* keeps the list returned by get_items (src/tests/test_shopping_cart.py). *)
(*                                                                         *)
(* Python lists are objects on a heap: self.items holds a reference, and   *)
(* get_items returns that same reference.  Every method is an operator     *)
(* over (heap, self, arguments) that yields the heap and the object after  *)
(* the call together with the returned value or the raised exception.      *)
(***************************************************************************)
EXTENDS Integers, Sequences, FiniteSets, TLC

\* ------------------------------------------------------------- bounds
\* Longest list the model lets a cart grow to (the code has no such cap).
MaxLen == 7
\* Prices of a price_dict are drawn from 1..MaxPrice.
MaxPrice == 2

\* ---------------------------------------------------------- constants
\* self.max_size: int = 5
max_size_init == 5

\* Item names used by the tests.
Items == {"water", "coffee", "milk"}
\* The dict of test_get_total_price.
prices == [water |-> 1, coffee |-> 3, milk |-> 2]
\* The price_dict arguments: every dict keyed by a subset of Items, and prices.
PriceDicts == UNION {[S -> 1..MaxPrice] : S \in SUBSET Items} \cup {prices}

\* Inputs of the caller that mutates the exposed list (a smaller set, the
\* lists being longer there).
CallerItems == {"water", "coffee"}
CallerPriceDicts == {prices, [water |-> 1], [coffee |-> 3, water |-> 1]}

\* ------------------------------------------------------ Python values
None_ == [t |-> "None", v |-> 0]
PyInt(n) == [t |-> "int", v |-> n]
ListRef(r) == [t |-> "list", v |-> r]
\* The call raised: there is no returned value.
NoReturn == [t |-> "raised", v |-> 0]

Returned(h, self, value) == [heap |-> h, self |-> self, ret |-> value, err |-> "none"]
Raised(h, self, exc) == [heap |-> h, self |-> self, ret |-> NoReturn, err |-> exc]

\* ------------------------------------------------------------ methods
\* def size(self): return len(self.items)
size_off_by_one(h, self) == Returned(h, self, PyInt(Len(h[self.items]) + 1))
size(h, self) == Returned(h, self, PyInt(Len(h[self.items])))

\* def add(self, item): raise OverflowError when size() == max_size, else append
add_check_greater(h, self, item) ==
    IF size(h, self).ret.v > self.max_size
    THEN Raised(h, self, "OverflowError")
    ELSE Returned([h EXCEPT ![self.items] = Append(@, item)], self, None_)
add_check_at_least(h, self, item) ==
    IF size(h, self).ret.v >= self.max_size
    THEN Raised(h, self, "OverflowError")
    ELSE Returned([h EXCEPT ![self.items] = Append(@, item)], self, None_)
add_insert_front(h, self, item) ==
    IF size(h, self).ret.v = self.max_size
    THEN Raised(h, self, "OverflowError")
    ELSE Returned([h EXCEPT ![self.items] = <<item>> \o @], self, None_)
add(h, self, item) ==
    IF size(h, self).ret.v = self.max_size
    THEN Raised(h, self, "OverflowError")
    ELSE Returned([h EXCEPT ![self.items] = Append(@, item)], self, None_)

\* def get_items(self): return self.items   (the reference, not a copy)
get_items_copy(h, self) ==
    Returned(Append(h, h[self.items]), self, ListRef(Len(h) + 1))
get_items(h, self) == Returned(h, self, ListRef(self.items))

\* price_dict.get(item): the value, or None when the key is absent
dict_get(price_dict, item) ==
    IF item \in DOMAIN price_dict THEN PyInt(price_dict[item]) ELSE None_

\* for item in self.items: total_price += price_dict.get(item)
\* int += None raises TypeError
RECURSIVE total_price_loop(_, _, _, _, _)
total_price_loop(h, self, price_dict, i, total_price) ==
    IF i > Len(h[self.items])
    THEN Returned(h, self, PyInt(total_price))
    ELSE LET got == dict_get(price_dict, h[self.items][i])
         IN  IF got.t = "None"
             THEN Raised(h, self, "TypeError")
             ELSE total_price_loop(h, self, price_dict, i + 1, total_price + got.v)

\* def get_total_price(self, price_dict): total_price = 0; loop; return
get_total_price_skip_first(h, self, price_dict) ==
    total_price_loop(h, self, price_dict, 2, 0)
get_total_price_drain(h, self, price_dict) ==
    LET r == total_price_loop(h, self, price_dict, 1, 0)
    IN  [r EXCEPT !.heap = [h EXCEPT ![self.items] = <<>>]]
get_total_price(h, self, price_dict) ==
    total_price_loop(h, self, price_dict, 1, 0)

\* -------------------------------------------------------------- state
VARIABLES
    heap,        \* the list objects, indexed by reference
    cart,        \* the ShoppingCart object: [items: reference, max_size: int]
    held,        \* the reference the caller kept from get_items (0: none)
    last,        \* the last call: [op, item, price_dict, ret, err]
    n_added,     \* history: number of add calls that returned
    overflowed,  \* history: some add call raised OverflowError
    exceeded     \* history: the list has been longer than max_size

vars == <<heap, cart, held, last, n_added, overflowed, exceeded>>

NoDict == [x \in {} |-> 0]
Call(op, item, price_dict, r) ==
    [op |-> op, item |-> item, price_dict |-> price_dict, ret |-> r.ret, err |-> r.err]

items == heap[cart.items]

\* def __init__(self): self.items = []; self.max_size = 5
Init ==
    /\ heap = << <<>> >>
    /\ cart = [items |-> 1, max_size |-> max_size_init]
    /\ held = 0
    /\ last = [op |-> "__init__", item |-> "", price_dict |-> NoDict,
               ret |-> None_, err |-> "none"]
    /\ n_added = 0
    /\ overflowed = FALSE
    /\ exceeded = FALSE

Effect(r) ==
    /\ heap' = r.heap
    /\ cart' = r.self
    /\ exceeded' = (exceeded \/ Len(r.heap[r.self.items]) > r.self.max_size)

Add(item) ==
    /\ Len(items) < MaxLen
    /\ n_added < MaxLen
    /\ LET r == add(heap, cart, item)
       IN  /\ Effect(r)
           /\ last' = Call("add", item, NoDict, r)
           /\ n_added' = IF r.err = "none" THEN n_added + 1 ELSE n_added
           /\ overflowed' = (overflowed \/ r.err = "OverflowError")
    /\ UNCHANGED held

Size ==
    /\ LET r == size(heap, cart)
       IN  /\ Effect(r)
           /\ last' = Call("size", "", NoDict, r)
    /\ UNCHANGED <<held, n_added, overflowed>>

GetItems ==
    /\ LET r == get_items(heap, cart)
       IN  /\ Effect(r)
           /\ last' = Call("get_items", "", NoDict, r)
           /\ held' = r.ret.v
    /\ UNCHANGED <<n_added, overflowed>>

GetTotalPrice(price_dict) ==
    /\ LET r == get_total_price(heap, cart, price_dict)
       IN  /\ Effect(r)
           /\ last' = Call("get_total_price", "", price_dict, r)
    /\ UNCHANGED <<held, n_added, overflowed>>

\* The caller appends to the list it got from get_items.
CallerAppend(item) ==
    /\ held # 0
    /\ Len(heap[held]) < MaxLen
    /\ Effect([heap |-> [heap EXCEPT ![held] = Append(@, item)], self |-> cart])
    /\ last' = [op |-> "caller_append", item |-> item, price_dict |-> NoDict,
                ret |-> None_, err |-> "none"]
    /\ UNCHANGED <<held, n_added, overflowed>>

\* The caller removes the last element of the list it got from get_items.
CallerPop ==
    /\ held # 0
    /\ Len(heap[held]) > 0
    /\ Effect([heap |-> [heap EXCEPT ![held] = SubSeq(@, 1, Len(@) - 1)], self |-> cart])
    /\ last' = [op |-> "caller_pop", item |-> "", price_dict |-> NoDict,
                ret |-> None_, err |-> "none"]
    /\ UNCHANGED <<held, n_added, overflowed>>

\* The cart used through its own four methods only.
Next ==
    \/ \E item \in Items : Add(item)
    \/ Size
    \/ GetItems
    \/ \E price_dict \in PriceDicts : GetTotalPrice(price_dict)

Spec == Init /\ [][Next]_vars

\* The cart and a caller that also mutates the list get_items gave it.
NextAlias ==
    \/ \E item \in CallerItems : Add(item)
    \/ Size
    \/ GetItems
    \/ \E price_dict \in CallerPriceDicts : GetTotalPrice(price_dict)
    \/ \E item \in CallerItems : CallerAppend(item)
    \/ CallerPop

SpecAlias == Init /\ [][NextAlias]_vars

\* ------------------------------------------------------------- claims
AddCalled == last'.op = "add"
AddReturned == last'.op = "add" /\ last'.err = "none"
AddRaised == last'.op = "add" /\ last'.err = "OverflowError"
QueryCalled == last'.op \in {"size", "get_items", "get_total_price"}

\* Number of positions of list that hold item.
Count(list, item) == Cardinality({i \in 1..Len(list) : list[i] = item})
\* Every item of list has an entry in price_dict.
AllPriced(list, price_dict) == \A i \in 1..Len(list) : list[i] \in DOMAIN price_dict
\* The sum, over the keys, of price times number of occurrences in list.
RECURSIVE PriceOfKeys(_, _, _)
PriceOfKeys(keys, list, price_dict) ==
    IF keys = {} THEN 0
    ELSE LET k == CHOOSE x \in keys : TRUE
         IN  Count(list, k) * price_dict[k] + PriceOfKeys(keys \ {k}, list, price_dict)
ExpectedTotal(list, price_dict) == PriceOfKeys(DOMAIN price_dict, list, price_dict)

\* C1: an add on a cart whose length equals max_size raises OverflowError,
\* returns nothing and leaves the item sequence, its length and max_size as
\* they were, whatever the item.
C1_AddAtCapacityFails ==
    [][(AddCalled /\ Len(items) = cart.max_size)
        => /\ last'.err = "OverflowError"
           /\ last'.ret = NoReturn
           /\ heap' = heap
           /\ cart' = cart
           /\ size(heap', cart').ret = size(heap, cart).ret]_vars
\* The sixth add (of "coffee") was refused.
C1_Witness ==
    /\ last.op = "add"
    /\ last.item = "coffee"
    /\ last.err = "OverflowError"
    /\ Len(items) = cart.max_size

\* C2: through add, size, get_items and get_total_price alone the length
\* stays within 0..max_size and max_size stays 5.
C2_CapacityInvariant ==
    /\ 0 <= Len(items)
    /\ Len(items) <= cart.max_size
    /\ cart.max_size = max_size_init
\* A full cart after a refused add and a failed get_total_price.
C2_Witness ==
    /\ Len(items) = cart.max_size
    /\ overflowed
    /\ last.op = "get_total_price"
    /\ last.err = "TypeError"

\* C3: a new cart has size 0, size() is the number of add calls that
\* returned, and each add that returns raises size() by exactly 1.
C3_SizeCountsAdds ==
    /\ [](/\ size(heap, cart).ret = PyInt(n_added)
          /\ n_added <= cart.max_size
          /\ (last.op = "__init__" => size(heap, cart).ret = PyInt(0))
          /\ (last.op = "size" => last.ret = PyInt(n_added)))
    /\ [][AddReturned => size(heap', cart').ret.v = size(heap, cart).ret.v + 1]_vars
\* size() answered 3 after three adds, two of the same item, with a
\* get_items call in between.
C3_Witness ==
    /\ last.op = "size"
    /\ last.ret = PyInt(3)
    /\ n_added = 3
    /\ held # 0
    /\ items[1] = items[2]

\* C4: an add that returns puts its item after the items already there,
\* which keep their places; nothing else changes the sequence; get_items
\* returns a list (never None) holding exactly that sequence, empty for
\* an empty cart.
C4_InsertionOrder ==
    /\ [][IF AddReturned THEN items' = Append(items, last'.item)
                         ELSE items' = items]_vars
    /\ [](last.op = "get_items"
            => /\ last.ret.t = "list"
               /\ heap[last.ret.v] = items
               /\ (n_added = 0 => heap[last.ret.v] = <<>>))
\* get_items after adding water, water, coffee.
C4_Witness ==
    /\ last.op = "get_items"
    /\ heap[last.ret.v] = <<"water", "water", "coffee">>

\* C5: when every item of the cart has a price, get_total_price returns
\* the sum over the positions of the sequence of the item's price; on an
\* empty cart it returns 0 whatever the price_dict.
C5_TotalIsSum ==
    last.op = "get_total_price"
        => /\ AllPriced(items, last.price_dict)
                => /\ last.err = "none"
                   /\ last.ret = PyInt(ExpectedTotal(items, last.price_dict))
           /\ items = <<>> => last.ret = PyInt(0)
\* test_get_total_price: water, coffee, milk at 1, 3, 2 gives 6.
C5_Witness ==
    /\ last.op = "get_total_price"
    /\ items = <<"water", "coffee", "milk">>
    /\ last.price_dict = prices
    /\ last.ret = PyInt(6)

\* C6: when some item of the cart has no entry in price_dict,
\* get_total_price raises the key-not-found error (KeyError) and returns
\* nothing, wherever the item is in the sequence.
C6_MissingKeyRaisesKeyError ==
    (last.op = "get_total_price" /\ ~AllPriced(items, last.price_dict))
        => /\ last.err = "KeyError"
           /\ last.ret = NoReturn

\* C7: size, get_items and get_total_price, returning or raising, leave
\* the lists and the cart object as they were; a step that changes them
\* is an add that returned.
C7_QueriesHaveNoEffect ==
    [][/\ QueryCalled => (heap' = heap /\ cart' = cart)
       /\ (heap' # heap \/ cart' # cart) => AddReturned]_vars
\* get_total_price raised on a cart of two items.
C7_Witness ==
    /\ last.op = "get_total_price"
    /\ last.err = "TypeError"
    /\ n_added = 2
    /\ Len(items) = 2

\* C8: through the four methods alone size() never decreases, and a cart
\* of max_size items keeps max_size items, every add on it raising
\* OverflowError.
C8_FullIsTerminal ==
    [][/\ size(heap', cart').ret.v >= size(heap, cart).ret.v
       /\ size(heap, cart).ret.v = cart.max_size
            => /\ size(heap', cart').ret.v = cart'.max_size
               /\ AddCalled => AddRaised]_vars
\* size() answered 5 on a cart that had refused an add.
C8_Witness ==
    /\ overflowed
    /\ last.op = "size"
    /\ last.ret = PyInt(max_size_init)

\* C9: the list the caller got from get_items is the cart's own list:
\* what the caller appended or removed is what size, get_items and
\* get_total_price answer from.
C9_LiveSequence ==
    held # 0
        => /\ held = cart.items
           /\ last.op = "size" => last.ret = PyInt(Len(heap[held]))
           /\ last.op = "get_items" => last.ret = ListRef(held)
           /\ (last.op = "get_total_price" /\ AllPriced(heap[held], last.price_dict))
                => last.ret = PyInt(ExpectedTotal(heap[held], last.price_dict))
           /\ (last.op = "get_total_price" /\ ~AllPriced(heap[held], last.price_dict))
                => last.err = "TypeError"
\* size() answered more than max_size and no add was ever refused.
C9_Witness ==
    /\ held # 0
    /\ ~overflowed
    /\ last.op = "size"
    /\ last.ret.v > cart.max_size
    /\ Len(items) > cart.max_size

\* C10 as stated: once the list has been longer than max_size, every
\* later add returns and appends.
C10_NeverRaisesAgain ==
    [][(exceeded /\ AddCalled)
        => (AddReturned /\ items' = Append(items, last'.item))]_vars
\* C10: add raises only when the length is exactly max_size; on a list
\* longer than max_size every add returns and appends, leaving it longer
\* than max_size.
C10_RaisesOnlyAtExactlyMaxSize ==
    [][/\ AddRaised => Len(items) = cart.max_size
       /\ (AddCalled /\ Len(items) > cart.max_size)
            => /\ AddReturned
               /\ items' = Append(items, last'.item)
               /\ Len(items') > cart'.max_size]_vars
\* An add returned on a list that already had more than max_size items.
C10_Witness ==
    /\ last.op = "add"
    /\ last.err = "none"
    /\ Len(items) > cart.max_size + 1
    /\ n_added = 1

====
